---------------------------- MODULE Spec2Model ----------------------------
(***************************************************************************)
(* SnapTaPlaque: the licence-plate recognition pipeline of                 *)
(* src/api/lpr_engine.py (class LPRPipeline).                              *)
(*                                                                         *)
(* Units.  A bounding-box coordinate is a float in the source; here it is  *)
(* an integer number of half pixels, so that int() (truncation toward      *)
(* zero) is a real conversion.  A confidence is a float in [0, 1]; here it *)
(* is an integer number of 1/100000.  A text is a sequence of one-char     *)
(* strings.  An image is a record of its height, width and pixels.         *)
(***************************************************************************)
EXTENDS Integers, Sequences, FiniteSets, TLC

VARIABLES
    pc,            \* position in LPRPipeline.run, or in a direct method call
    image_np,      \* the image handed to run / extract_roi
    df_vehicles,   \* run: rows of the vehicle detector's output
    v_idx,         \* run: 1-based position of the for loop over df_vehicles
    vehicle_img,   \* run: crop of the current vehicle
    df_p,          \* run: rows of the plate detector's output on vehicle_img
    best_p,        \* run: the row of df_p selected by idxmax
    plate_img,     \* run: the last crop handed to extract_ocr
    plate_results, \* run: fallback rows of the plate detector on the full image
    f_idx,         \* run: 1-based position of the fallback for loop
    plates_found,  \* run: the list being built and returned
    results,       \* extract_ocr: the fragments returned by the last readtext
    calls,         \* history: the capability calls made so far, in order
    origin,        \* history: for each element of plates_found, who appended it
    bbox,          \* direct extract_roi call: the box argument
    roi,           \* direct extract_roi call: the returned region
    ocr_out,       \* direct extract_ocr call: the returned (text, confidence)
    pipeline,      \* PlatePredictor.pipeline: None or the loaded LPRPipeline
    last_load,     \* history: what the most recent load_model call returned
    pred_call,     \* the last direct call of a PlatePredictor method
    users,         \* the rows of table "users", in insertion order
    predictions,   \* the rows of table "predictions", in insertion order
    now,           \* the clock (datetime.utcnow()), in minutes
    held,          \* the token the client got from its last successful login
    http           \* the last HTTP request and the response it got

vars == <<pc, image_np, df_vehicles, v_idx, vehicle_img, df_p, best_p,
          plate_img, plate_results, f_idx, plates_found, results, calls,
          origin, bbox, roi, ocr_out, pipeline, last_load, pred_call, users,
          predictions, now, held, http>>

run_vars == <<df_vehicles, v_idx, vehicle_img, df_p, best_p, plate_img,
              plate_results, f_idx, plates_found, calls, origin>>

api_vars == <<pipeline, last_load, pred_call, users, predictions, now, held,
              http>>

-----------------------------------------------------------------------------
(* Bounds of the model *)

MaxVehicles == 2
MaxPlates == 2
MaxRunFrags == 1
MaxFrags == 3
MaxDim == 2
ImgH == 3
ImgW == 4

(* CFG.ocr_conf = 0.1, in units of 1/100000 *)
ocr_conf == 10000

None == "None"

\* The web layer at rest: nothing loaded, empty tables, no request made.
ApiIdle ==
    /\ pipeline = None
    /\ last_load = "never"
    /\ pred_call = [op |-> "none"]
    /\ users = <<>>
    /\ predictions = <<>>
    /\ now = 0
    /\ held = [token |-> [sig |-> "none"], issued_at |-> 0]
    /\ http = [endpoint |-> "none"]

Min(a, b) == IF a <= b THEN a ELSE b
Max(a, b) == IF a >= b THEN a ELSE b

-----------------------------------------------------------------------------
(* Images and numpy slicing *)

\* An h x w image whose pixel at 0-based (r, c) holds r * w + c + 1: every
\* pixel value names its position.  px is indexed from 1.
MkImage(h, w) ==
    [h |-> h, w |-> w,
     px |-> [p \in (1..h) \X (1..w) |-> (p[1] - 1) * w + p[2]]]

IsEmptyImg(img) == img.h = 0 \/ img.w = 0

\* Python's int() on a float given in half units: truncation toward zero.
int(h) == IF h >= 0 THEN h \div 2 ELSE -((-h) \div 2)

\* A slice bound as numpy resolves it on an axis of length n: a negative
\* bound counts from the end, and the result is clipped to 0..n.
SliceBound(k, n) == IF k < 0 THEN Max(k + n, 0) ELSE Min(k, n)

\* The axis range start:stop selects on an axis of length n, as
\* <<first index (0-based), length>>.
SliceRange(start, stop, n) ==
    <<SliceBound(start, n), Max(SliceBound(stop, n) - SliceBound(start, n), 0)>>

\* image[y_min:y_max, x_min:x_max]
Slice2D(image, y_min, y_max, x_min, x_max) ==
    LET ys == SliceRange(y_min, y_max, image.h)
        xs == SliceRange(x_min, x_max, image.w)
    IN  [h |-> ys[2], w |-> xs[2],
         px |-> [p \in (1..ys[2]) \X (1..xs[2]) |->
                    image.px[<<ys[1] + p[1], xs[1] + p[2]>>]]]

\* A plausible slip: the axes swapped, image[x_min:x_max, y_min:y_max].
extract_roi_swapped(image, box) ==
    Slice2D(image, int(box.xmin), int(box.xmax), int(box.ymin), int(box.ymax))

\* LPRPipeline.extract_roi: image[y_min:y_max, x_min:x_max] on int(bbox).
extract_roi(image, box) ==
    Slice2D(image, int(box.ymin), int(box.ymax), int(box.xmin), int(box.xmax))

-----------------------------------------------------------------------------
(* Texts and extract_ocr *)

\* str.upper, one character at a time.
UpperChar(ch) == IF ch = "a" THEN "A" ELSE ch
upper(text) == [i \in 1..Len(text) |-> UpperChar(text[i])]

\* A plausible slip: the threshold itself is accepted.
Accepts_ge(conf) == conf >= ocr_conf

\* Line 109: if conf > CFG.ocr_conf
Accepts(conf) == conf > ocr_conf

\* The for loop of extract_ocr from fragment i on, with the running
\* text_plate and max_conf.
RECURSIVE OcrLoop(_, _, _, _)
OcrLoop(res, i, text_plate, max_conf) ==
    IF i > Len(res) THEN <<text_plate, max_conf>>
    ELSE IF Accepts(res[i].conf)
         THEN OcrLoop(res, i + 1, text_plate \o res[i].text,
                      Max(max_conf, res[i].conf))
         ELSE OcrLoop(res, i + 1, text_plate, max_conf)

\* LPRPipeline.extract_ocr applied to the reader's output `res`:
\* returns <<text_plate.upper(), max_conf>>.
extract_ocr(res) ==
    LET folded == OcrLoop(res, 1, <<>>, 0)
    IN  <<upper(folded[1]), folded[2]>>


-----------------------------------------------------------------------------
(* Inputs: what the detectors and the reader may return *)

\* All sequences over S of length at most n.
SeqsUpTo(S, n) == UNION {[1..k -> S] : k \in 0..n}

Box(x0, y0, x1, y1) == [xmin |-> x0, ymin |-> y0, xmax |-> x1, ymax |-> y1]

Row(x0, y0, x1, y1, c, k) ==
    [xmin |-> x0, ymin |-> y0, xmax |-> x1, ymax |-> y1, conf |-> c, class |-> k]

\* Rows the vehicle detector may return on the ImgH x ImgW image: the whole
\* frame, a box with fractional corners, and a box narrower than one pixel.
VehicleRows ==
    { Row(0, 0, 2 * ImgW, 2 * ImgH, 80000, 2),
      Row(2, 1, 2 * ImgW - 1, 2 * ImgH, 60000, 7),
      Row(2, 2, 3, 4, 55000, 3) }

\* Rows the plate detector may return (on a vehicle crop or on the full
\* image): two boxes of equal confidence, and one of zero width.
PlateRows ==
    { Row(0, 0, 4, 2, 60000, 0),
      Row(1, 2, 3, 5, 60000, 0),
      Row(2, 2, 2, 4, 40000, 0) }

Fragment(t, c) == [text |-> t, conf |-> c]

\* Fragments the reader may return inside run: one of empty text and one of
\* text "a1", both above CFG.ocr_conf (the threshold is exercised by the
\* direct calls of extract_ocr below).
RunFragments ==
    { Fragment(<<>>, 40000),
      Fragment(<<"a", "1">>, 20000) }

\* Fragments for the direct calls of extract_ocr: below, at and above
\* CFG.ocr_conf.
FragTexts == {<<>>, <<"a">>, <<"B", "1">>}
FragConfs == {5000, ocr_conf, 20000, 40000}
Fragments == {Fragment(t, c) : t \in FragTexts, c \in FragConfs}

\* self.vehicle_model.predict(image_np, ...) as a table of rows.
VehicleModelPredict(img) == SeqsUpTo(VehicleRows, MaxVehicles)

\* self.plate_model.predict(img, ...) as a table of rows.  On a zero-area
\* image the detector has nothing to detect; it may also raise (CanRaise).
PlateModelPredict(img) ==
    IF IsEmptyImg(img) THEN {<<>>} ELSE SeqsUpTo(PlateRows, MaxPlates)

\* self.reader.readtext(roi_img, allowlist=...)
ReadText(img) ==
    IF IsEmptyImg(img) THEN {<<>>} ELSE SeqsUpTo(RunFragments, MaxRunFrags)

\* A detector or reader given a zero-area image may raise instead of
\* returning.
CanRaise(img) == IsEmptyImg(img)

-----------------------------------------------------------------------------
(* LPRPipeline.run *)

Retn(out) == IF out = <<>> THEN "none" ELSE "some"

\* One entry of the call history: which capability, in which stage, for
\* which vehicle or fallback detection, whether the image handed over had
\* zero area, and how the call ended ("raised", "none", "some").
Call(cap, stage, v, img, ret) ==
    [cap |-> cap, stage |-> stage, v |-> v, empty |-> IsEmptyImg(img),
     ret |-> ret]

\* {"plate": text, "confidence": float(conf)}
Candidate(r) == [plate |-> r[1], confidence |-> r[2]]

\* A plausible slip: >= keeps the last row holding the maximum.
RECURSIVE IdxMaxFrom_last(_, _, _)
IdxMaxFrom_last(df, i, best) ==
    IF i > Len(df) THEN best
    ELSE IF df[i].conf >= df[best].conf
         THEN IdxMaxFrom_last(df, i + 1, i)
         ELSE IdxMaxFrom_last(df, i + 1, best)

\* The scan behind idxmax from row i on: a later row replaces the best so
\* far only when strictly greater.
RECURSIVE IdxMaxFrom(_, _, _)
IdxMaxFrom(df, i, best) ==
    IF i > Len(df) THEN best
    ELSE IF df[i].conf > df[best].conf
         THEN IdxMaxFrom(df, i + 1, i)
         ELSE IdxMaxFrom(df, i + 1, best)

\* df_p['conf'].idxmax(): the label of the first row holding the maximum.
idxmax(df) == IdxMaxFrom(df, 2, 1)

InitRun ==
    /\ pc = "start"
    /\ image_np = MkImage(ImgH, ImgW)
    /\ df_vehicles = <<>>
    /\ v_idx = 0
    /\ vehicle_img = None
    /\ df_p = <<>>
    /\ best_p = None
    /\ plate_img = None
    /\ plate_results = <<>>
    /\ f_idx = 0
    /\ plates_found = <<>>
    /\ results = <<>>
    /\ calls = <<>>
    /\ origin = <<>>
    /\ bbox = None
    /\ roi = None
    /\ ocr_out = None
    /\ ApiIdle

\* Lines 127-138: the vehicle detector on the full image.
VehicleSearch ==
    /\ pc = "start"
    /\ \E out \in VehicleModelPredict(image_np) :
          /\ df_vehicles' = out
          /\ calls' = Append(calls, Call("vehicle_model", "start", 0,
                                         image_np, Retn(out)))
          /\ IF out = <<>>
             THEN pc' = "fallback_check" /\ v_idx' = v_idx
             ELSE pc' = "vehicle_loop" /\ v_idx' = 1
    /\ plates_found' = <<>>
    /\ UNCHANGED <<image_np, vehicle_img, df_p, best_p, plate_img,
                   plate_results, f_idx, results, origin, bbox, roi, ocr_out>>
    /\ UNCHANGED api_vars

\* A plausible slip: the vehicle loop left after its first iteration.
NextVehicle_break ==
    /\ v_idx' = v_idx + 1
    /\ pc' = "fallback_check"

\* The for loop of line 139 moves to the next vehicle, or ends.
NextVehicle ==
    /\ v_idx' = v_idx + 1
    /\ pc' = IF v_idx + 1 > Len(df_vehicles) THEN "fallback_check"
                                              ELSE "vehicle_loop"

\* A plausible slip: a vehicle without plate still yields an empty candidate.
NoPlate_appends ==
    /\ NextVehicle
    /\ plates_found' = Append(plates_found, Candidate(<<<<>>, 0>>))
    /\ origin' = Append(origin, [stage |-> "two_stage", idx |-> v_idx])
    /\ UNCHANGED best_p

\* Line 147, df_p.empty: nothing is done for this vehicle.
NoPlate ==
    /\ NextVehicle
    /\ UNCHANGED <<best_p, plates_found, origin>>

\* Lines 139-149: crop the vehicle, run the plate detector on the crop, and
\* select the best row when there is one.
PerVehiclePlateSearch ==
    /\ pc = "vehicle_loop"
    /\ LET v_row == df_vehicles[v_idx]
           img   == extract_roi(image_np, v_row)
       IN  /\ vehicle_img' = img
           /\ \/ /\ CanRaise(img)
                 /\ calls' = Append(calls, Call("plate_model", "two_stage",
                                                v_idx, img, "raised"))
                 /\ pc' = "error"
                 /\ UNCHANGED <<v_idx, df_p, best_p, plates_found, origin>>
              \/ \E out \in PlateModelPredict(img) :
                    /\ df_p' = out
                    /\ calls' = Append(calls, Call("plate_model", "two_stage",
                                                   v_idx, img, Retn(out)))
                    /\ IF out = <<>>
                       THEN NoPlate
                       ELSE /\ best_p' = out[idxmax(out)]
                            /\ pc' = "ocr_vehicle"
                            /\ UNCHANGED <<v_idx, plates_found, origin>>
    /\ UNCHANGED <<image_np, df_vehicles, plate_img, plate_results, f_idx,
                   results, bbox, roi, ocr_out>>
    /\ UNCHANGED api_vars

\* A plausible slip: the fallback's filter applied in two-stage mode too.
AppendTwoStage_filtered(r) ==
    IF r[1] # <<>>
    THEN /\ plates_found' = Append(plates_found, Candidate(r))
         /\ origin' = Append(origin, [stage |-> "two_stage", idx |-> v_idx])
    ELSE UNCHANGED <<plates_found, origin>>

\* A plausible slip: the list assigned, not appended to.
AppendTwoStage_replaces(r) ==
    /\ plates_found' = <<Candidate(r)>>
    /\ origin' = <<[stage |-> "two_stage", idx |-> v_idx]>>

\* Line 155: plates_found.append(...), whatever the text.
AppendTwoStage(r) ==
    /\ plates_found' = Append(plates_found, Candidate(r))
    /\ origin' = Append(origin, [stage |-> "two_stage", idx |-> v_idx])

\* A plausible slip: the plate box, local to the vehicle crop, applied to
\* the full image.
TwoStagePlateImg_full == extract_roi(image_np, best_p)

\* Lines 150-151: the plate crop is cut out of the vehicle crop.
TwoStagePlateImg == extract_roi(vehicle_img, best_p)

\* Lines 150-155: crop the best plate out of the vehicle crop, read it, and
\* append the candidate.
OcrPerVehicle ==
    /\ pc = "ocr_vehicle"
    /\ LET img == TwoStagePlateImg
       IN  /\ plate_img' = img
           /\ \/ /\ CanRaise(img)
                 /\ calls' = Append(calls, Call("reader", "two_stage", v_idx,
                                                img, "raised"))
                 /\ pc' = "error"
                 /\ UNCHANGED <<v_idx, results, plates_found, origin>>
              \/ \E frags \in ReadText(img) :
                    /\ results' = frags
                    /\ calls' = Append(calls, Call("reader", "two_stage",
                                                   v_idx, img, Retn(frags)))
                    /\ AppendTwoStage(extract_ocr(frags))
                    /\ NextVehicle
    /\ UNCHANGED <<image_np, df_vehicles, vehicle_img, df_p, best_p,
                   plate_results, f_idx, bbox, roi, ocr_out>>
    /\ UNCHANGED api_vars

\* A plausible slip: the fallback runs whatever the two-stage search found.
FallbackGuard_always == TRUE

\* Line 158: if not plates_found
FallbackGuard == plates_found = <<>>

\* Line 158 with a non-empty list, then line 167: no fallback, return.
ReturnTwoStage ==
    /\ pc = "fallback_check"
    /\ ~FallbackGuard
    /\ pc' = "done"
    /\ UNCHANGED <<image_np, run_vars, results, bbox, roi, ocr_out>>
    /\ UNCHANGED api_vars

\* A plausible slip: no detection handled as a failure, not as an empty
\* collection.
EnterFallbackLoop_raises(out) ==
    IF out = <<>>
    THEN pc' = "error" /\ f_idx' = f_idx
    ELSE pc' = "fallback_loop" /\ f_idx' = 1

\* Line 160: the for loop over the fallback detections starts, or has
\* nothing to iterate and run returns (line 167).
EnterFallbackLoop(out) ==
    IF out = <<>>
    THEN pc' = "done" /\ f_idx' = f_idx
    ELSE pc' = "fallback_loop" /\ f_idx' = 1

\* Lines 158-160: the list is empty, run the plate detector on the full
\* image.
FallbackPlateSearch ==
    /\ pc = "fallback_check"
    /\ FallbackGuard
    /\ \E out \in PlateModelPredict(image_np) :
          /\ plate_results' = out
          /\ calls' = Append(calls, Call("plate_model", "fallback", 0,
                                         image_np, Retn(out)))
          /\ EnterFallbackLoop(out)
    /\ UNCHANGED <<image_np, df_vehicles, v_idx, vehicle_img, df_p, best_p,
                   plate_img, plates_found, results, origin, bbox, roi,
                   ocr_out>>
    /\ UNCHANGED api_vars

\* A plausible slip: the two-stage append used in the fallback too.
AppendFallback_unfiltered(r) ==
    /\ plates_found' = Append(plates_found, Candidate(r))
    /\ origin' = Append(origin, [stage |-> "fallback", idx |-> f_idx])

\* Lines 164-165: if text: plates_found.append(...)
AppendFallback(r) ==
    IF r[1] # <<>>
    THEN /\ plates_found' = Append(plates_found, Candidate(r))
         /\ origin' = Append(origin, [stage |-> "fallback", idx |-> f_idx])
    ELSE UNCHANGED <<plates_found, origin>>

\* A plausible slip: the fallback reads only the best detection, as the
\* vehicle loop does.
FallbackDetection_best == plate_results[idxmax(plate_results)]

\* Line 160: for _, result in plate_results.iterrows(), at position f_idx.
FallbackDetection == plate_results[f_idx]

\* Lines 160-165: one fallback detection: crop it out of the full image, read
\* it, and append the candidate when the text is not empty.
OcrPerFallbackDetection ==
    /\ pc = "fallback_loop"
    /\ LET result == FallbackDetection
           p_bbox == Box(result.xmin, result.ymin, result.xmax, result.ymax)
           img    == extract_roi(image_np, p_bbox)
       IN  /\ plate_img' = img
           /\ \/ /\ CanRaise(img)
                 /\ calls' = Append(calls, Call("reader", "fallback", f_idx,
                                                img, "raised"))
                 /\ pc' = "error"
                 /\ UNCHANGED <<f_idx, results, plates_found, origin>>
              \/ \E frags \in ReadText(img) :
                    /\ results' = frags
                    /\ calls' = Append(calls, Call("reader", "fallback",
                                                   f_idx, img, Retn(frags)))
                    /\ AppendFallback(extract_ocr(frags))
                    /\ f_idx' = f_idx + 1
                    /\ pc' = IF f_idx + 1 > Len(plate_results)
                             THEN "done" ELSE "fallback_loop"
    /\ UNCHANGED <<image_np, df_vehicles, v_idx, vehicle_img, df_p, best_p,
                   plate_results, bbox, roi, ocr_out>>
    /\ UNCHANGED api_vars

Init == InitRun

Next ==
    \/ VehicleSearch
    \/ PerVehiclePlateSearch
    \/ OcrPerVehicle
    \/ ReturnTwoStage
    \/ FallbackPlateSearch
    \/ OcrPerFallbackDetection

Spec == Init /\ [][Next]_vars

-----------------------------------------------------------------------------
(* Direct calls of extract_roi: every image up to MaxDim x MaxDim and every *)
(* box whose corners lie up to one pixel beyond twice the image, either way *)

RoiImages == {MkImage(h, w) : h \in 1..MaxDim, w \in 1..MaxDim}

Coords(n) == (-(2 * (n + 1)))..(2 * (n + 1))

RoiBoxes(img) ==
    {Box(x0, y0, x1, y1) : x0 \in Coords(img.w), y0 \in Coords(img.h),
                           x1 \in Coords(img.w), y1 \in Coords(img.h)}

InitRoi ==
    /\ pc = "roi_call"
    /\ image_np \in RoiImages
    /\ bbox \in RoiBoxes(image_np)
    /\ roi = None
    /\ df_vehicles = <<>>
    /\ v_idx = 0
    /\ vehicle_img = None
    /\ df_p = <<>>
    /\ best_p = None
    /\ plate_img = None
    /\ plate_results = <<>>
    /\ f_idx = 0
    /\ plates_found = <<>>
    /\ results = <<>>
    /\ calls = <<>>
    /\ origin = <<>>
    /\ ocr_out = None
    /\ ApiIdle

ExtractRoiCall ==
    /\ pc = "roi_call"
    /\ roi' = extract_roi(image_np, bbox)
    /\ pc' = "roi_done"
    /\ UNCHANGED <<image_np, run_vars, results, bbox, ocr_out>>
    /\ UNCHANGED api_vars

NextRoi == ExtractRoiCall

SpecRoi == InitRoi /\ [][NextRoi]_vars

-----------------------------------------------------------------------------
(* Direct calls of extract_ocr on every reader output of at most MaxFrags   *)
(* fragments                                                                *)

InitOcr ==
    /\ pc = "ocr_call"
    /\ image_np = MkImage(ImgH, ImgW)
    /\ results \in SeqsUpTo(Fragments, MaxFrags)
    /\ ocr_out = None
    /\ df_vehicles = <<>>
    /\ v_idx = 0
    /\ vehicle_img = None
    /\ df_p = <<>>
    /\ best_p = None
    /\ plate_img = None
    /\ plate_results = <<>>
    /\ f_idx = 0
    /\ plates_found = <<>>
    /\ calls = <<>>
    /\ origin = <<>>
    /\ bbox = None
    /\ roi = None
    /\ ApiIdle

ExtractOcrCall ==
    /\ pc = "ocr_call"
    /\ ocr_out' = extract_ocr(results)
    /\ pc' = "ocr_done"
    /\ UNCHANGED <<image_np, run_vars, results, bbox, roi>>
    /\ UNCHANGED api_vars

NextOcr == ExtractOcrCall

SpecOcr == InitOcr /\ [][NextOcr]_vars

-----------------------------------------------------------------------------
(* Reading the history *)

Last(s) == s[Len(s)]

\* The full-image plate search of line 159 has been called.
FallbackRan == \E i \in DOMAIN calls : calls[i].stage = "fallback"

\* The plate detector returned at least one row for vehicle v.
PlateFound(v) ==
    \E i \in DOMAIN calls :
        /\ calls[i].cap = "plate_model" /\ calls[i].stage = "two_stage"
        /\ calls[i].v = v /\ calls[i].ret = "some"

\* The positions of plates_found appended for vehicle v in two-stage mode.
AppendedFor(v) ==
    {k \in DOMAIN origin : origin[k] = [stage |-> "two_stage", idx |-> v]}

\* The last call is a read of the given stage that returned.
JustRead(stage) ==
    /\ calls # <<>>
    /\ Last(calls).cap = "reader"
    /\ Last(calls).stage = stage
    /\ Last(calls).ret # "raised"

-----------------------------------------------------------------------------
(* The aggregation of fragments, stated without the loop *)

IsAbove(f) == f.conf > ocr_conf

RECURSIVE RefConcat(_)
RefConcat(fs) == IF fs = <<>> THEN <<>> ELSE Head(fs).text \o RefConcat(Tail(fs))

RefText(res) ==
    LET raw == RefConcat(SelectSeq(res, IsAbove))
    IN  [i \in 1..Len(raw) |-> IF raw[i] = "a" THEN "A" ELSE raw[i]]

RefConf(res) ==
    LET acc == SelectSeq(res, IsAbove)
    IN  IF acc = <<>> THEN 0
        ELSE CHOOSE c \in {acc[i].conf : i \in DOMAIN acc} :
                 \A i \in DOMAIN acc : acc[i].conf <= c

-----------------------------------------------------------------------------
(* Claims *)

\* C1: the full-image fallback search runs if and only if the candidate list
\* is empty once every vehicle has been processed; when some vehicle yielded
\* a plate detection the fallback is not run and no fallback candidate is in
\* the list.
C1_FallbackIffEmpty ==
    /\ pc \in {"fallback_loop", "done"} =>
          (FallbackRan <=> \A k \in DOMAIN origin : origin[k].stage # "two_stage")
    /\ FallbackRan =>
          /\ pc \in {"fallback_loop", "done", "error"}
          /\ v_idx = IF df_vehicles = <<>> THEN 0 ELSE Len(df_vehicles) + 1
    /\ (\E v \in DOMAIN df_vehicles : PlateFound(v)) =>
          /\ ~FallbackRan
          /\ \A k \in DOMAIN origin : origin[k].stage # "fallback"

\* C1 witness: a run returned a two-stage candidate with empty text and the
\* fallback search was never called.
C1_Witness ==
    /\ pc = "done"
    /\ ~FallbackRan
    /\ plates_found # <<>>
    /\ plates_found[1].plate = <<>>

\* C2: in two-stage mode every vehicle whose crop yields a plate detection
\* gets exactly one candidate, the OCR result of its best plate crop, empty
\* text or not, and the candidates follow the order of the vehicles.
C2_OneCandidatePerPlate ==
    /\ \A v \in DOMAIN df_vehicles :
          (PlateFound(v) /\ v < v_idx) => Cardinality(AppendedFor(v)) = 1
    /\ \A k1, k2 \in DOMAIN origin :
          (k1 < k2 /\ origin[k2].stage = "two_stage") =>
              /\ origin[k1].stage = "two_stage"
              /\ origin[k1].idx < origin[k2].idx
    /\ JustRead("two_stage") =>
          /\ plates_found # <<>>
          /\ Last(plates_found) =
                [plate |-> RefText(results), confidence |-> RefConf(results)]
          /\ Last(origin) = [stage |-> "two_stage", idx |-> Last(calls).v]

\* C2 witness: two vehicles with a plate each, the first read as empty text,
\* the second as "A1"; both candidates are returned in that order.
C2_Witness ==
    /\ pc = "done"
    /\ Len(plates_found) = 2
    /\ plates_found[1].plate = <<>>
    /\ plates_found[2] = [plate |-> <<"A", "1">>, confidence |-> 20000]
    /\ origin[1].idx = 1
    /\ origin[2].idx = 2

\* C3: in two-stage mode a vehicle whose crop yields no plate detection gets
\* no candidate, and the reader is not called for it.
C3_NoPlateNoCandidate ==
    \A i \in DOMAIN calls :
        (/\ calls[i].cap = "plate_model"
         /\ calls[i].stage = "two_stage"
         /\ calls[i].ret = "none") =>
            /\ AppendedFor(calls[i].v) = {}
            /\ ~ \E j \in DOMAIN calls :
                    /\ calls[j].cap = "reader"
                    /\ calls[j].stage = "two_stage"
                    /\ calls[j].v = calls[i].v

\* C3 witness: the first of two vehicles has no plate, the second has one;
\* the only candidate returned is the second vehicle's.
C3_Witness ==
    /\ pc = "done"
    /\ Len(df_vehicles) = 2
    /\ ~PlateFound(1)
    /\ Len(plates_found) = 1
    /\ origin[1] = [stage |-> "two_stage", idx |-> 2]

\* C4: in fallback mode a candidate is appended only when the text read is
\* not empty, so a list returned through the fallback holds no empty text.
C4_FallbackDropsEmptyText ==
    /\ \A k \in DOMAIN origin :
          origin[k].stage = "fallback" => plates_found[k].plate # <<>>
    /\ FallbackRan => \A k \in DOMAIN plates_found : plates_found[k].plate # <<>>
    /\ (JustRead("fallback") /\ RefText(results) = <<>>) =>
          ~ \E k \in DOMAIN origin : origin[k].idx = Last(calls).v

\* C4 witness: the fallback found two plates, the first read as empty text
\* and dropped, the second kept.
C4_Witness ==
    /\ pc = "done"
    /\ Len(plate_results) = 2
    /\ Len(plates_found) = 1
    /\ origin[1] = [stage |-> "fallback", idx |-> 2]

\* C5: extract_ocr accepts exactly the fragments strictly above the
\* threshold; the text is the uppercased concatenation of the accepted texts
\* in reader order, the confidence their maximum, and ("", 0) when none is
\* accepted.
C5_OcrAggregation ==
    pc = "ocr_done" =>
        /\ ocr_out = <<RefText(results), RefConf(results)>>
        /\ (\A i \in DOMAIN results : results[i].conf <= ocr_conf) =>
              ocr_out = <<<<>>, 0>>

\* C5 witness: a fragment exactly at the threshold is dropped, the two above
\* it are concatenated in reader order and uppercased.
C5_Witness ==
    /\ pc = "ocr_done"
    /\ results = <<Fragment(<<"a">>, ocr_conf), Fragment(<<"B", "1">>, 20000),
                   Fragment(<<"a">>, 40000)>>
    /\ ocr_out = <<<<"B", "1", "A">>, 40000>>

\* C6: for a vehicle crop with plate detections the search selects exactly
\* one of them, of maximum confidence, the first such in detector order; it
\* is the one whose crop is read, once.
C6_BestPlateFirstMax ==
    /\ pc = "ocr_vehicle" =>
          \E k \in DOMAIN df_p :
              /\ best_p = df_p[k]
              /\ \A j \in DOMAIN df_p : df_p[j].conf <= df_p[k].conf
              /\ \A j \in 1..(k - 1) : df_p[j].conf < df_p[k].conf
    /\ JustRead("two_stage") => plate_img = extract_roi(vehicle_img, best_p)
    /\ \A i, j \in DOMAIN calls :
          (/\ calls[i].cap = "reader" /\ calls[j].cap = "reader"
           /\ calls[i].stage = "two_stage" /\ calls[j].stage = "two_stage"
           /\ calls[i].v = calls[j].v) => i = j

\* C6 witness: two different plate rows share the maximum confidence and the
\* first is selected.
C6_Witness ==
    /\ pc = "ocr_vehicle"
    /\ Len(df_p) = 2
    /\ df_p[1].conf = df_p[2].conf
    /\ df_p[1] # df_p[2]
    /\ best_p = df_p[1]

\* C7: when the vehicle detector and the full-image plate detector both
\* return nothing, run returns an empty list and does not fail.
C7_NothingDetectedEmptyList ==
    (/\ \E i \in DOMAIN calls :
            calls[i].cap = "vehicle_model" /\ calls[i].ret = "none"
     /\ \E i \in DOMAIN calls :
            calls[i].stage = "fallback" /\ calls[i].cap = "plate_model"
            /\ calls[i].ret = "none") =>
        pc = "done" /\ plates_found = <<>>

\* C7 witness: a finished run with no vehicle and no fallback detection.
C7_Witness ==
    /\ pc = "done"
    /\ df_vehicles = <<>>
    /\ FallbackRan
    /\ plate_results = <<>>
    /\ plates_found = <<>>

\* The box has whole-pixel corners.
WholePixels(b) ==
    \A c \in {b.xmin, b.ymin, b.xmax, b.ymax} : c % 2 = 0

\* C8: for a box with 0 <= x_min <= x_max <= W and 0 <= y_min <= y_max <= H
\* extract_roi returns a region of height y_max - y_min and width
\* x_max - x_min whose pixel (i, j) is image pixel (y_min + i, x_min + j).
C8_RoiInBounds ==
    (/\ pc = "roi_done"
     /\ WholePixels(bbox)
     /\ 0 <= bbox.xmin /\ bbox.xmin <= bbox.xmax /\ bbox.xmax <= 2 * image_np.w
     /\ 0 <= bbox.ymin /\ bbox.ymin <= bbox.ymax /\ bbox.ymax <= 2 * image_np.h) =>
        /\ 2 * roi.h = bbox.ymax - bbox.ymin
        /\ 2 * roi.w = bbox.xmax - bbox.xmin
        /\ DOMAIN roi.px = (1..roi.h) \X (1..roi.w)
        /\ \A p \in DOMAIN roi.px :
              roi.px[p] = image_np.px[<<(bbox.ymin \div 2) + p[1],
                                        (bbox.xmin \div 2) + p[2]>>]

\* C8 witness: the box [0, 1, 2, 2] on a 2 x 2 image gives the 1 x 2 bottom
\* row.
C8_Witness ==
    /\ pc = "roi_done"
    /\ image_np = MkImage(2, 2)
    /\ bbox = Box(0, 2, 4, 4)
    /\ roi.h = 1
    /\ roi.w = 2
    /\ roi.px[<<1, 1>>] = 3
    /\ roi.px[<<1, 2>>] = 4

Clamp(k, n) == Max(0, Min(k, n))

\* The part of the image covered by the box [x0, x1) x [y0, y1) cut to the
\* image bounds.
Clamped(image, x0, y0, x1, y1) ==
    LET cx0 == Clamp(x0, image.w)
        cy0 == Clamp(y0, image.h)
        ch  == Max(Clamp(y1, image.h) - cy0, 0)
        cw  == Max(Clamp(x1, image.w) - cx0, 0)
    IN  [h |-> ch, w |-> cw,
         px |-> [p \in (1..ch) \X (1..cw) |->
                    image.px[<<cy0 + p[1], cx0 + p[2]>>]]]

\* C9: extract_roi clamps: for every box, negative or out-of-range corners
\* included, it returns exactly the part of the image covered by the box cut
\* to the image bounds.
C9_RoiClamped ==
    pc = "roi_done" =>
        LET want == Clamped(image_np, int(bbox.xmin), int(bbox.ymin),
                            int(bbox.xmax), int(bbox.ymax))
        IN  IF IsEmptyImg(want) THEN IsEmptyImg(roi) ELSE roi = want

\* C10: a box that yields a zero-area crop is treated as no detection: no
\* detector or reader is handed the empty crop and run does not fail.
C10_InvalidRegionIsNoDetection ==
    /\ \A i \in DOMAIN calls : ~calls[i].empty
    /\ pc # "error"

\* C20: for every box with x_min >= x_max or y_min >= y_max, negative and
\* out-of-range coordinates included, extract_roi returns a zero-area region.
C20_DegenerateIsEmpty ==
    (/\ pc = "roi_done"
     /\ int(bbox.xmin) >= int(bbox.xmax) \/ int(bbox.ymin) >= int(bbox.ymax)) =>
        IsEmptyImg(roi)

-----------------------------------------------------------------------------
(* PlatePredictor (src/api/app/predictor.py)                                *)

MaxCands == 2

\* The old variables at rest while the predictor or the web layer runs.
PipelineIdle ==
    /\ pc = "idle"
    /\ image_np = MkImage(ImgH, ImgW)
    /\ df_vehicles = <<>>
    /\ v_idx = 0
    /\ vehicle_img = None
    /\ df_p = <<>>
    /\ best_p = None
    /\ plate_img = None
    /\ plate_results = <<>>
    /\ f_idx = 0
    /\ plates_found = <<>>
    /\ results = <<>>
    /\ calls = <<>>
    /\ origin = <<>>
    /\ bbox = None
    /\ roi = None
    /\ ocr_out = None

pipeline_vars == <<pc, image_np, run_vars, results, bbox, roi, ocr_out>>

\* Python's None where a text is expected.  A text is a sequence of one-char
\* strings, so this one-element sequence is no text.
NoneText == <<None>>

\* The object LPRPipeline() constructs.
LPRPipeline == "LPRPipeline"

\* The bytes a client may submit, and cv2.imdecode on them: an image, or
\* None when the bytes are no image.
ImageBytes == {"jpeg", "garbage"}
imdecode(image_bytes) == IF image_bytes = "jpeg" THEN "ndarray" ELSE None

\* Candidates run can return: an empty text with confidence 0 (no fragment
\* accepted), an empty text with a positive confidence (an accepted fragment
\* whose text is empty), and texts with a confidence above ocr_conf, some of
\* which round(x, 4) moves down and some up.
RunTexts == {<<"A", "1">>, <<"B">>}
RunConfs == {20004, 20006, 40000, 99996}
RunCandidates ==
    {Candidate(<<<<>>, 0>>), Candidate(<<<<>>, 40000>>)} \cup
    {Candidate(<<t, c>>) : t \in RunTexts, c \in RunConfs}

\* What self.pipeline.run(image) can do: return a list, or raise (a
\* capability failing on a zero-area crop).
RunOutcomes ==
    {[raised |-> TRUE, list |-> <<>>]} \cup
    {[raised |-> FALSE, list |-> l] : l \in SeqsUpTo(RunCandidates, MaxCands)}

\* A plausible slip: the last of the maximal candidates.
RECURSIVE MaxFrom_last(_, _, _)
MaxFrom_last(rs, i, best) ==
    IF i > Len(rs) THEN best
    ELSE MaxFrom_last(rs, i + 1,
                      IF rs[i].confidence >= rs[best].confidence THEN i
                                                                  ELSE best)

\* Line 157: max(results, key=lambda r: r["confidence"]): Python's max keeps
\* the first of the maximal elements.
RECURSIVE MaxFrom(_, _, _)
MaxFrom(rs, i, best) ==
    IF i > Len(rs) THEN best
    ELSE MaxFrom(rs, i + 1,
                 IF rs[i].confidence > rs[best].confidence THEN i ELSE best)

max(rs) == rs[MaxFrom(rs, 2, 1)]

\* Line 161: round(x, 4) on a confidence in units of 1/100000: the nearest
\* multiple of 10 units, a tie going to the even one.
round4(c) ==
    LET r  == c % 10
        lo == c - r
    IN  IF r < 5 THEN lo
        ELSE IF r > 5 THEN lo + 10
        ELSE IF (lo \div 10) % 2 = 0 THEN lo ELSE lo + 10

\* Lines 148-163: the dictionary predict returns for the list run returned.
PredictResult(rs) ==
    IF rs = <<>>
    THEN [plate_text |-> NoneText, confidence |-> 0, bounding_box |-> None]
    ELSE LET best == max(rs)
         IN  [plate_text   |-> IF best.plate # <<>> THEN best.plate
                                                    ELSE NoneText,
              confidence   |-> round4(best.confidence),
              bounding_box |-> None]

\* A plausible slip: an undecodable image handed to the pipeline.
predict_nodecode(pl, image_bytes, run) ==
    IF pl = None
    THEN [raises |-> "RuntimeError", ran |-> FALSE]
    ELSE IF run.raised
    THEN [raises |-> "Exception", ran |-> TRUE]
    ELSE [raises |-> None, ran |-> TRUE, run_out |-> run.list,
          value |-> PredictResult(run.list)]

\* Lines 133-163: predict on a predictor whose pipeline is pl, when run (if
\* it is reached) does what `run` says.  `ran` tells whether run was invoked
\* and run_out what it returned.
predict(pl, image_bytes, run) ==
    IF pl = None
    THEN [raises |-> "RuntimeError", ran |-> FALSE]
    ELSE IF imdecode(image_bytes) = None
    THEN [raises |-> "ValueError", ran |-> FALSE]
    ELSE IF run.raised
    THEN [raises |-> "Exception", ran |-> TRUE]
    ELSE [raises |-> None, ran |-> TRUE, run_out |-> run.list,
          value |-> PredictResult(run.list)]

\* A plausible slip: a failed load keeps the pipeline loaded before.
load_model_keeps(ok) ==
    /\ pipeline' = IF ok THEN LPRPipeline ELSE pipeline
    /\ last_load' = IF ok THEN "succeeded" ELSE "failed"

\* Lines 76-82: load_model; LPRPipeline() succeeds (ok) or raises.
load_model(ok) ==
    /\ pipeline' = IF ok THEN LPRPipeline ELSE None
    /\ last_load' = IF ok THEN "succeeded" ELSE "failed"

\* Line 96
is_loaded == pipeline # None

InitPredictor ==
    /\ PipelineIdle
    /\ ApiIdle

LoadModelCall ==
    /\ \E ok \in BOOLEAN :
          /\ load_model(ok)
          /\ pred_call' = [op |-> "load_model", ret |-> ok]
    /\ UNCHANGED <<pipeline_vars, users, predictions, now, held, http>>

IsLoadedCall ==
    /\ pred_call' = [op |-> "is_loaded", ret |-> is_loaded]
    /\ UNCHANGED <<pipeline_vars, pipeline, last_load, users, predictions, now,
                   held, http>>

PredictCall ==
    /\ \E image_bytes \in ImageBytes, run \in RunOutcomes :
          pred_call' = [op |-> "predict", image_bytes |-> image_bytes,
                        loaded |-> is_loaded,
                        out |-> predict(pipeline, image_bytes, run)]
    /\ UNCHANGED <<pipeline_vars, pipeline, last_load, users, predictions, now,
                   held, http>>

NextPredictor ==
    \/ LoadModelCall
    \/ IsLoadedCall
    \/ PredictCall

SpecPredictor == InitPredictor /\ [][NextPredictor]_vars

-----------------------------------------------------------------------------
(* Claims about PlatePredictor                                              *)

\* The last direct call was a predict that returned a dictionary.
PredictReturned == pred_call.op = "predict" /\ pred_call.out.raises = None

\* The position predict must report: maximal confidence, no earlier
\* candidate reaching it.
FirstBest(rs) ==
    CHOOSE b \in DOMAIN rs :
        /\ \A i \in DOMAIN rs : rs[i].confidence <= rs[b].confidence
        /\ \A i \in 1..(b - 1) : rs[i].confidence < rs[b].confidence

Abs(x) == IF x >= 0 THEN x ELSE -x

\* C11 as stated: predict reports the first candidate of maximal confidence
\* with that candidate's text and that candidate's confidence, and
\* plate_text None with confidence 0.0 for an empty list.
C11_BestAsIs ==
    PredictReturned =>
        LET rs  == pred_call.out.run_out
            val == pred_call.out.value
        IN  IF rs = <<>>
            THEN val.plate_text = NoneText /\ val.confidence = 0
            ELSE /\ val.plate_text = rs[FirstBest(rs)].plate
                 /\ val.confidence = rs[FirstBest(rs)].confidence

\* C11 (amended): predict reports the first candidate of maximal confidence,
\* with plate_text that candidate's text, or None when that text is empty,
\* and confidence that candidate's confidence rounded to 4 decimal digits;
\* for an empty list it reports plate_text None and confidence 0.0.
C11_BestRounded ==
    PredictReturned =>
        LET rs  == pred_call.out.run_out
            val == pred_call.out.value
        IN  IF rs = <<>>
            THEN val.plate_text = NoneText /\ val.confidence = 0
            ELSE LET best == rs[FirstBest(rs)]
                 IN  /\ val.plate_text =
                            IF best.plate = <<>> THEN NoneText ELSE best.plate
                     /\ val.confidence % 10 = 0
                     /\ 2 * Abs(val.confidence - best.confidence) <= 10

\* C11 witness: two candidates tie at 0.20004; the first one is reported, at
\* 0.2000.
C11_Witness ==
    /\ PredictReturned
    /\ pred_call.out.run_out = <<Candidate(<<<<"A", "1">>, 20004>>),
                                 Candidate(<<<<"B">>, 20004>>)>>
    /\ pred_call.out.value.plate_text = <<"A", "1">>
    /\ pred_call.out.value.confidence = 20000

-----------------------------------------------------------------------------
(* The web layer: tables, passwords, tokens (src/api/app)                   *)

MaxPredictions == 2

(* timedelta(minutes=15) of create_access_token, and                        *)
(* ACCESS_TOKEN_EXPIRE_MINUTES                                              *)
DefaultExpireMinutes == 15
ACCESS_TOKEN_EXPIRE_MINUTES == 60

\* What .first() returns when no row matches (None): a row that is no row.
NoRow == [id |-> 0]

first(rows) == IF rows = <<>> THEN NoRow ELSE Head(rows)

\* pwd_context.hash and pwd_context.verify (bcrypt): a hash is not the
\* password, and verifies exactly the password it was made from.
get_password_hash(password) == [scheme |-> "bcrypt", of |-> password]
verify_password(plain, hashed) == hashed.of = plain

\* A row of table users.
User(id, email, username, password, is_active, is_admin) ==
    [id |-> id, email |-> email, username |-> username,
     hashed_password |-> get_password_hash(password),
     is_active |-> is_active, is_admin |-> is_admin]

\* The table before the first request: the administrator init_admin.py
\* creates, a deactivated account and an ordinary active account.
SeededUsers ==
    <<User(1, "admin@x", "admin", "pw1", TRUE, TRUE),
      User(2, "bob@x", "bob", "pw2", FALSE, FALSE),
      User(3, "carol@x", "carol", "pw2", TRUE, FALSE)>>

get_user_by_email(email) ==
    first(SelectSeq(users, LAMBDA u : u.email = email))

get_user_by_username(username) ==
    first(SelectSeq(users, LAMBDA u : u.username = username))

\* No Authorization header.
NoToken == [sig |-> "none"]

\* A token signed with SECRET_KEY: the payload and exp, in minutes.
SignedToken(payload, exp) == payload @@ [exp |-> exp, sig |-> "ok"]

\* Lines 135-138 of auth.py: `expires_delta or timedelta(minutes=15)`; a
\* missing expires_delta is 0 here (timedelta(0) is falsy as None is).
create_access_token(data, expires_delta) ==
    SignedToken(data, now + (IF expires_delta # 0 THEN expires_delta
                                                  ELSE DefaultExpireMinutes))

\* jwt.decode succeeds: the signature is the key's and exp is not passed.
Decodes(token) == token.sig = "ok" /\ now <= token.exp

\* The outcome of a dependency: an HTTP error, or the user it yields.
Deny(status) == [status |-> status, user |-> NoRow]
Allow(user) == [status |-> 200, user |-> user]

\* A plausible slip: the signature is not verified.
get_current_user_unverified(token) ==
    IF token.sig = "none" THEN Deny(401)
    ELSE IF "sub" \notin DOMAIN token THEN Deny(401)
    ELSE LET user == get_user_by_username(token.sub)
         IN  IF user = NoRow THEN Deny(401) ELSE Allow(user)

\* auth.py lines 170-210, after oauth2_scheme (401 without a bearer token)
\* and decode_access_token (lines 141-167).
get_current_user(token) ==
    IF token.sig = "none" THEN Deny(401)
    ELSE IF ~Decodes(token) THEN Deny(401)
    ELSE IF "sub" \notin DOMAIN token THEN Deny(401)
    ELSE LET user == get_user_by_username(token.sub)
         IN  IF user = NoRow THEN Deny(401) ELSE Allow(user)

\* auth.py lines 213-241
get_current_active_user(token) ==
    LET current_user == get_current_user(token)
    IN  IF current_user.status # 200 THEN current_user
        ELSE IF ~current_user.user.is_active THEN Deny(403)
        ELSE current_user

\* Tokens a client can present besides the one it holds: none, one with a
\* wrong signature, an expired one, one without "sub", and unexpired ones
\* naming the seeded users and a user that does not exist.  exp = 1000 is
\* later than every time of the model, exp = -1 earlier.
ClientTokens ==
    {NoToken,
     [sub |-> "admin", exp |-> 1000, sig |-> "bad"],
     SignedToken([sub |-> "admin"], -1),
     SignedToken(<<>>, 1000)} \cup
    {SignedToken([sub |-> u], 1000) : u \in {"admin", "bob", "carol", "eve"}}

-----------------------------------------------------------------------------
(* The prediction endpoints (src/api/app/routers/predictions.py), after the *)
(* startup event of main.py                                                 *)

\* What run returns to a request: as RunOutcomes, over fewer candidates.
ApiCandidates ==
    {Candidate(<<<<>>, 0>>),
     Candidate(<<<<>>, 40000>>),
     Candidate(<<<<"A", "1">>, 20004>>)}

ApiRunOutcomes ==
    {[raised |-> TRUE, list |-> <<>>]} \cup
    {[raised |-> FALSE, list |-> l] : l \in SeqsUpTo(ApiCandidates, MaxCands)}

\* A plausible slip: the result reported whatever its text.
Truthy_always(text) == TRUE

\* Python's truth value of result["plate_text"]: None and "" are false.
Truthy(text) == text # NoneText /\ text # <<>>

\* crud.py lines 177-185: the row create_prediction inserts.
Prediction(user_id, filename, res) ==
    [id |-> Len(predictions) + 1, user_id |-> user_id,
     filename |-> filename, results |-> res]

\* crud.py line 209
get_user_predictions(user_id) ==
    SelectSeq(predictions, LAMBDA p : p.user_id = user_id)

\* crud.py lines 228-229
get_user_prediction_stats(user_id) ==
    [total_predictions |-> Len(get_user_predictions(user_id))]

\* predictions.py lines 54-71: one entry per stored result, and one entry
\* without plate for a prediction that stored none.
RECURSIVE History(_)
History(preds) ==
    IF preds = <<>> THEN <<>>
    ELSE LET pred == Head(preds)
         IN  (IF pred.results # <<>>
              THEN [i \in 1..Len(pred.results) |->
                       [id |-> pred.id,
                        plate_text |-> pred.results[i].plate_text,
                        confidence |-> pred.results[i].confidence]]
              ELSE <<[id |-> pred.id, plate_text |-> NoneText,
                      confidence |-> -1]>>)
             \o History(Tail(preds))

\* A request that a dependency rejected: the handler body never runs.
Rejected(endpoint, token, status) ==
    [endpoint |-> endpoint, token |-> token, status |-> status,
     ran |-> FALSE, db |-> "none"]

\* The application before its startup event, over the seeded table.
InitApi ==
    /\ PipelineIdle
    /\ pipeline = None
    /\ last_load = "never"
    /\ pred_call = [op |-> "none"]
    /\ users = SeededUsers
    /\ predictions = <<>>
    /\ now = 0
    /\ held = [token |-> NoToken, issued_at |-> 0]
    /\ http = [endpoint |-> "none"]

\* main.py lines 85-103: the startup event loads the model, or fails to.
\* Requests are served only after it.
StartupEvent ==
    /\ http.endpoint = "none"
    /\ \E ok \in BOOLEAN : load_model(ok)
    /\ http' = [endpoint |-> "startup"]
    /\ UNCHANGED <<pipeline_vars, pred_call, users, predictions, now, held>>

Serving == http.endpoint # "none"

\* predictions.py lines 21-44: the body of predict_plate for the
\* authenticated user.  An exception other than ValueError is not caught:
\* the framework answers 500.  `ran` tells whether run was invoked and `run`
\* what it did.
predict_plate_body(token, user, contents, filename, run) ==
    LET req == [endpoint |-> "predict", token |-> token,
                contents |-> contents]
    IN  IF ~is_loaded
        THEN /\ http' = req @@ [status |-> 503, ran |-> FALSE, db |-> "none"]
             /\ UNCHANGED predictions
        ELSE LET out == predict(pipeline, contents, run)
             IN  IF out.raises = "ValueError"
                 THEN /\ http' = req @@ [status |-> 400, ran |-> out.ran,
                                         db |-> "none"]
                      /\ UNCHANGED predictions
                 ELSE IF out.raises # None
                 THEN /\ http' = req @@ [status |-> 500, ran |-> out.ran,
                                         db |-> "none", run |-> run]
                      /\ UNCHANGED predictions
                 ELSE LET result == out.value
                          res == IF Truthy(result.plate_text) THEN <<result>>
                                                              ELSE <<>>
                          prediction == Prediction(user.id, filename, res)
                      IN  /\ predictions' = Append(predictions, prediction)
                          /\ http' = req @@
                                [status |-> 200, ran |-> out.ran,
                                 db |-> "write", run |-> run,
                                 body |-> [filename |-> filename,
                                           results |-> res,
                                           prediction_id |-> prediction.id]]

\* POST /predictions/predict (lines 15-44)
PredictPlate ==
    /\ Serving
    /\ Len(predictions) < MaxPredictions
    /\ \E token \in ClientTokens, contents \in ImageBytes :
          LET auth == get_current_active_user(token)
          IN  IF auth.status # 200
              THEN /\ http' = Rejected("predict", token, auth.status) @@
                                [contents |-> contents]
                   /\ UNCHANGED predictions
              ELSE \E run \in ApiRunOutcomes :
                      predict_plate_body(token, auth.user, contents, "f.jpg",
                                         run)
    /\ UNCHANGED <<pipeline_vars, pipeline, last_load, pred_call, users, now,
                   held>>

\* GET /predictions/history (lines 46-71)
GetPredictionHistory ==
    /\ Serving
    /\ \E token \in ClientTokens :
          LET auth == get_current_active_user(token)
          IN  http' = IF auth.status # 200
                      THEN Rejected("history", token, auth.status)
                      ELSE [endpoint |-> "history", token |-> token,
                            status |-> 200, ran |-> FALSE, db |-> "read",
                            body |-> History(get_user_predictions(
                                                 auth.user.id))]
    /\ UNCHANGED <<pipeline_vars, pipeline, last_load, pred_call, users,
                   predictions, now, held>>

\* GET /predictions/stats (lines 73-78)
GetPredictionStatistics ==
    /\ Serving
    /\ \E token \in ClientTokens :
          LET auth == get_current_active_user(token)
          IN  http' = IF auth.status # 200
                      THEN Rejected("stats", token, auth.status)
                      ELSE [endpoint |-> "stats", token |-> token,
                            status |-> 200, ran |-> FALSE, db |-> "read",
                            body |-> get_user_prediction_stats(auth.user.id)]
    /\ UNCHANGED <<pipeline_vars, pipeline, last_load, pred_call, users,
                   predictions, now, held>>

NextApi ==
    \/ StartupEvent
    \/ PredictPlate
    \/ GetPredictionHistory
    \/ GetPredictionStatistics

SpecApi == InitApi /\ [][NextApi]_vars

-----------------------------------------------------------------------------
(* Claims about the prediction endpoints                                    *)

PredictionEndpoints == {"predict", "history", "stats"}

Range(s) == {s[i] : i \in DOMAIN s}

\* The token is signed with the key and not expired.
TokenDecodes(t) == t.sig = "ok" /\ t.exp >= now

\* The users the token's "sub" names.
NamedBy(t) ==
    IF "sub" \in DOMAIN t THEN {u \in Range(users) : u.username = t.sub}
                          ELSE {}

\* The token decodes and names an existing, active user.
TokenOfActiveUser(t) ==
    /\ TokenDecodes(t)
    /\ \E u \in NamedBy(t) : u.is_active

\* C12: predict on a predictor that is not loaded raises RuntimeError, and on
\* bytes that do not decode ValueError, in both cases without invoking the
\* pipeline; a /predict request with such bytes never runs the pipeline and
\* stores no Prediction row, and is answered 400 once it has passed
\* authentication and the load check.
C12_UndecodableNeverRuns ==
    [][/\ \A image_bytes \in ImageBytes, run \in ApiRunOutcomes :
             /\ predict(None, image_bytes, run).raises = "RuntimeError"
             /\ ~predict(None, image_bytes, run).ran
             /\ imdecode(image_bytes) = None =>
                   /\ predict(LPRPipeline, image_bytes, run).raises =
                          "ValueError"
                   /\ ~predict(LPRPipeline, image_bytes, run).ran
       /\ (http'.endpoint = "predict" /\ imdecode(http'.contents) = None) =>
             /\ ~http'.ran
             /\ http'.db = "none"
             /\ predictions' = predictions
             /\ http'.status # 200
             /\ (TokenOfActiveUser(http'.token) /\ pipeline # None) =>
                    http'.status = 400]_vars

\* C12 witness: an authenticated request with undecodable bytes is answered
\* 400, the pipeline idle and the table still empty.
C12_Witness ==
    /\ http.endpoint = "predict"
    /\ http.contents = "garbage"
    /\ http.status = 400
    /\ ~http.ran
    /\ predictions = <<>>

\* C13: for an authenticated /predict request, the answer is 503 exactly
\* when the predictor is not loaded, and when the pipeline returned an empty
\* list the answer is 200 with results = [].
C13_EmptyListIsSuccess ==
    (http.endpoint = "predict" /\ TokenOfActiveUser(http.token)) =>
        /\ http.status = 503 <=> pipeline = None
        /\ (http.ran /\ ~http.run.raised /\ http.run.list = <<>>) =>
              /\ http.status = 200
              /\ http.body.results = <<>>

\* C13 witness: the pipeline returned no candidate and the request succeeded
\* with an empty result list.
C13_Witness ==
    /\ http.endpoint = "predict"
    /\ http.status = 200
    /\ http.run.list = <<>>
    /\ http.body.results = <<>>
    /\ Len(predictions) = 1

\* C18: a prediction endpoint answers 401 to a token that does not decode,
\* has no "sub" or names no user, and 403 to one that names an inactive
\* user; in these cases the pipeline is not run and no Prediction row is
\* read or written; so a request is served only for a token of an active
\* user.
C18_PredictionEndpointsGuarded ==
    [][http'.endpoint \in PredictionEndpoints =>
          LET t == http'.token
          IN  /\ (t.sig = "none" \/ ~TokenDecodes(t) \/ NamedBy(t) = {}) =>
                     http'.status = 401
              /\ (t.sig # "none" /\ TokenDecodes(t) /\ NamedBy(t) # {}
                  /\ \A u \in NamedBy(t) : ~u.is_active) =>
                     http'.status = 403
              /\ http'.status \in {401, 403} =>
                     /\ ~http'.ran
                     /\ http'.db = "none"
                     /\ predictions' = predictions
              /\ http'.status \notin {401, 403} => TokenOfActiveUser(t)]_vars

\* C18 witness: the token of the deactivated account is answered 403 by
\* /predict, without a pipeline run or a row.
C18_Witness ==
    /\ http.endpoint = "predict"
    /\ http.token = SignedToken([sub |-> "bob"], 1000)
    /\ http.status = 403
    /\ ~http.ran
    /\ http.db = "none"
    /\ pipeline # None

-----------------------------------------------------------------------------
(* Accounts and administration (src/api/app/routers/auth.py,                *)
(* src/api/app/routers/admin.py, src/api/app/dependencies.py)               *)

MaxUsers == 4

\* The times the clock takes: around the 15 and the 60 minutes after 0.
Times == {0, 15, 16, 59, 61}

\* What clients submit.
LoginNames == {"admin", "bob", "dave", "eve"}
Passwords == {"pw1", "pw2"}
RegEmails == {"admin@x", "dave@x", "erin@x"}
RegNames == {"admin", "dave", "erin"}
QueryNames == {"admin", "bob", "carol", "eve"}

\* A plausible slip: the password is not verified.
Authenticates_nopassword(user, password) == user # NoRow

\* routers/auth.py line 91: the user exists and the password verifies.
Authenticates(user, password) ==
    user # NoRow /\ verify_password(password, user.hashed_password)

\* database.py lines 98-99: email and username are unique columns; an
\* insert that repeats one fails at commit (IntegrityError).
UniqueViolation(email, username) ==
    \E u \in Range(users) : u.email = email \/ u.username = username

\* dependencies.py lines 29-62: the user is looked up by the `username`
\* parameter, "admin" unless the request's query string gives another.
deps_get_current_user(username) ==
    LET user == get_user_by_username(username)
    IN  IF user = NoRow THEN Deny(401)
        ELSE IF ~user.is_active THEN Deny(401)
        ELSE Allow(user)

\* dependencies.py lines 65-92
deps_get_current_admin_user(username) ==
    LET current_user == deps_get_current_user(username)
    IN  IF current_user.status # 200 THEN current_user
        ELSE IF ~current_user.user.is_admin THEN Deny(403)
        ELSE current_user

\* crud.py lines 271-277
get_global_stats ==
    [total_users |-> Len(users), total_predictions |-> Len(predictions)]

\* The running application over the seeded table.
InitAuth ==
    /\ PipelineIdle
    /\ pipeline = LPRPipeline
    /\ last_load = "succeeded"
    /\ pred_call = [op |-> "none"]
    /\ users = SeededUsers
    /\ predictions = <<>>
    /\ now = 0
    /\ held = [token |-> NoToken, issued_at |-> 0]
    /\ http = [endpoint |-> "none"]

\* POST /auth/login (routers/auth.py lines 56-104)
Login ==
    /\ \E username \in LoginNames, password \in Passwords :
          LET user == get_user_by_username(username)
              req  == [endpoint |-> "login", username |-> username,
                       password |-> password]
          IN  IF ~Authenticates(user, password)
              THEN /\ http' = req @@ [status |-> 401]
                   /\ UNCHANGED held
              ELSE LET access_token ==
                           create_access_token([sub |-> user.username], 0)
                   IN  /\ http' = req @@
                             [status |-> 200,
                              body |-> [access_token |-> access_token,
                                        token_type |-> "bearer"]]
                       /\ held' = [token |-> access_token, issued_at |-> now]
    /\ UNCHANGED <<pipeline_vars, pipeline, last_load, pred_call, users,
                   predictions, now>>

\* POST /auth/register (routers/auth.py lines 109-139, crud.py lines 82-117).
\* An IntegrityError at commit is not caught: the framework answers 500 and
\* the row is not inserted.
Register ==
    /\ Len(users) < MaxUsers
    /\ \E email \in RegEmails, username \in RegNames, is_admin \in BOOLEAN :
          LET req == [endpoint |-> "register", email |-> email,
                      username |-> username, password |-> "pw1",
                      is_admin |-> is_admin]
              db_user == get_user_by_email(email)
          IN  IF db_user # NoRow
              THEN /\ http' = req @@ [status |-> 400]
                   /\ UNCHANGED users
              ELSE IF UniqueViolation(email, username)
              THEN /\ http' = req @@ [status |-> 500]
                   /\ UNCHANGED users
              ELSE LET row == User(Len(users) + 1, email, username, "pw1",
                                   TRUE, is_admin)
                   IN  /\ users' = Append(users, row)
                       /\ http' = req @@ [status |-> 200, body |-> row]
    /\ UNCHANGED <<pipeline_vars, pipeline, last_load, pred_call, predictions,
                   now, held>>

\* GET /auth/me (routers/auth.py lines 144-168), with the held token or
\* without one.
ReadMe ==
    /\ \E token \in {held.token, NoToken} :
          LET auth == get_current_active_user(token)
          IN  http' = [endpoint |-> "me", token |-> token, at |-> now,
                       status |-> auth.status, body |-> auth.user]
    /\ UNCHANGED <<pipeline_vars, pipeline, last_load, pred_call, users,
                   predictions, now, held>>

\* GET /admin/users (admin.py lines 47-71).  The request carries a token or
\* none, which the dependency does not look at.
ListUsers ==
    /\ \E token \in {held.token, NoToken}, username \in QueryNames :
          LET admin == deps_get_current_admin_user(username)
              req   == [endpoint |-> "admin_users", token |-> token,
                        username |-> username, at |-> now]
          IN  http' = IF admin.status # 200
                      THEN req @@ [status |-> admin.status]
                      ELSE req @@ [status |-> 200, body |-> users]
    /\ UNCHANGED <<pipeline_vars, pipeline, last_load, pred_call, users,
                   predictions, now, held>>

\* GET /admin/stats (admin.py lines 74-100)
GlobalStats ==
    /\ \E token \in {held.token, NoToken}, username \in QueryNames :
          LET admin == deps_get_current_admin_user(username)
              req   == [endpoint |-> "admin_stats", token |-> token,
                        username |-> username, at |-> now]
          IN  http' = IF admin.status # 200
                      THEN req @@ [status |-> admin.status]
                      ELSE req @@ [status |-> 200, body |-> get_global_stats]
    /\ UNCHANGED <<pipeline_vars, pipeline, last_load, pred_call, users,
                   predictions, now, held>>

\* Time passes.
Tick ==
    /\ \E t \in Times : t > now /\ now' = t
    /\ UNCHANGED <<pipeline_vars, pipeline, last_load, pred_call, users,
                   predictions, held, http>>

NextAuth ==
    \/ Login
    \/ Register
    \/ ReadMe
    \/ ListUsers
    \/ GlobalStats
    \/ Tick

SpecAuth == InitAuth /\ [][NextAuth]_vars

-----------------------------------------------------------------------------
(* Claims about accounts and administration                                 *)

AdminEndpoints == {"admin_users", "admin_stats"}

\* C14: an admin endpoint is served only to a request carrying a token that
\* decodes and names an active user with is_admin = true.
C14_AdminNeedsAdminToken ==
    (http.endpoint \in AdminEndpoints /\ http.status = 200) =>
        LET t == http.token
        IN  /\ t.sig = "ok"
            /\ t.exp >= http.at
            /\ \E u \in NamedBy(t) : u.is_active /\ u.is_admin

\* C15: login issues no token for a user whose is_active is false.
C15_InactiveCannotLogin ==
    (http.endpoint = "login" /\ http.status = 200) =>
        \A u \in Range(users) : u.username = http.username => u.is_active

\* C16: a register request whose email is already in the table is answered
\* 400 and leaves the table unchanged; any other register request adds
\* exactly one row, with the submitted email and username and a hash of the
\* submitted password.
C16_RegisterAddsOneRow ==
    [][(http'.endpoint = "register" /\ http' # http) =>
          IF \E u \in Range(users) : u.email = http'.email
          THEN http'.status = 400 /\ users' = users
          ELSE /\ Len(users') = Len(users) + 1
               /\ SubSeq(users', 1, Len(users)) = users
               /\ LET row == users'[Len(users')]
                  IN  /\ row.email = http'.email
                      /\ row.username = http'.username
                      /\ row.hashed_password.scheme = "bcrypt"
                      /\ verify_password(http'.password,
                                         row.hashed_password)]_vars

C19_TokenValidSixtyMinutes ==
    (http.endpoint = "me" /\ http.token = held.token
     /\ held.token.sig = "ok") =>
        LET age == http.at - held.issued_at
        IN  /\ age < ACCESS_TOKEN_EXPIRE_MINUTES => http.status # 401
            /\ age > ACCESS_TOKEN_EXPIRE_MINUTES => http.status = 401

-----------------------------------------------------------------------------
(* C21: nested-crop coordinates *)

\* A box whose truncated corners lie inside an h x w image, in order.
InBounds(box, h, w) ==
    /\ 0 <= int(box.xmin) /\ int(box.xmin) <= int(box.xmax)
    /\ int(box.xmax) <= w
    /\ 0 <= int(box.ymin) /\ int(box.ymin) <= int(box.ymax)
    /\ int(box.ymax) <= h

\* The vehicle whose plate crop was just read.
ReadVehicle == df_vehicles[Last(calls).v]

\* C21: in two-stage mode, for an in-bounds vehicle box V and a plate box P
\* in-bounds within the vehicle crop, the plate crop has P's size and its
\* pixel (i, j) is the full image's pixel
\* (V.y_min + P.y_min + i, V.x_min + P.x_min + j): the plate box is applied
\* to the vehicle crop, not to the full image.
C21_NestedCropCoordinates ==
    (/\ JustRead("two_stage")
     /\ InBounds(ReadVehicle, image_np.h, image_np.w)
     /\ InBounds(best_p, int(ReadVehicle.ymax) - int(ReadVehicle.ymin),
                         int(ReadVehicle.xmax) - int(ReadVehicle.xmin))) =>
        /\ plate_img.h = int(best_p.ymax) - int(best_p.ymin)
        /\ plate_img.w = int(best_p.xmax) - int(best_p.xmin)
        /\ \A p \in (1..plate_img.h) \X (1..plate_img.w) :
              plate_img.px[p] =
                  image_np.px[<<int(ReadVehicle.ymin) + int(best_p.ymin) + p[1],
                                int(ReadVehicle.xmin) + int(best_p.xmin) + p[2]>>]

\* A vehicle crop starting one pixel to the right and a plate crop starting
\* one pixel down inside it: the one plate pixel is the full image's pixel
\* at 0-based (1, 1), which the box applied to the full image would miss.
C21_Witness ==
    /\ JustRead("two_stage")
    /\ int(ReadVehicle.xmin) = 1 /\ int(ReadVehicle.ymin) = 0
    /\ int(best_p.xmin) = 0 /\ int(best_p.ymin) = 1
    /\ InBounds(ReadVehicle, image_np.h, image_np.w)
    /\ InBounds(best_p, int(ReadVehicle.ymax) - int(ReadVehicle.ymin),
                        int(ReadVehicle.xmax) - int(ReadVehicle.xmin))
    /\ plate_img.h = 1 /\ plate_img.w = 1
    /\ plate_img.px[<<1, 1>>] = image_np.px[<<2, 2>>]
    /\ plate_img.px[<<1, 1>>] # image_np.px[<<2, 1>>]

-----------------------------------------------------------------------------
(* C22: the fallback reads every detection, in order *)

\* The candidate the fragments read amount to.
RefCandidate(res) == [plate |-> RefText(res), confidence |-> RefConf(res)]

\* One returning step of the fallback loop handles detection f_idx: it
\* crops that detection out of the full image, reads it, appends the
\* candidate read when its text is not empty (and nothing otherwise), and
\* moves to the next detection; run returns once the last one is handled.
FallbackStepInOrder ==
    (pc = "fallback_loop" /\ pc' # "error") =>
        /\ plate_img' = extract_roi(image_np, plate_results[f_idx])
        /\ Last(calls') = Call("reader", "fallback", f_idx, plate_img',
                               Retn(results'))
        /\ IF RefText(results') # <<>>
           THEN /\ plates_found' = Append(plates_found, RefCandidate(results'))
                /\ origin' = Append(origin, [stage |-> "fallback",
                                             idx |-> f_idx])
           ELSE plates_found' = plates_found /\ origin' = origin
        /\ f_idx' = f_idx + 1
        /\ plate_results' = plate_results
        /\ pc' = IF f_idx = Len(plate_results) THEN "done" ELSE "fallback_loop"

\* The fallback loop starts at the first detection, with an empty list.
FallbackStartsAtFirst ==
    (pc = "fallback_check" /\ pc' = "fallback_loop") =>
        f_idx' = 1 /\ plates_found' = <<>> /\ plate_results' # <<>>

\* C22: in fallback mode every full-image plate detection is processed, in
\* the detector's order, not only the best one: each returning step of the
\* loop reads the next detection and appends its OCR result exactly when
\* the text is not empty, so the returned list is the sequence of the
\* non-empty OCR results of the detections, one candidate per detection.
C22_FallbackReadsEveryDetection ==
    [][FallbackStepInOrder /\ FallbackStartsAtFirst]_<<pc, f_idx, plates_found>>

\* C22 witness: no vehicle, the fallback finds two plates, the first reads
\* as empty text and the second as "A1": the list returned holds the second
\* detection's candidate alone.
C22_Witness ==
    /\ pc = "done"
    /\ df_vehicles = <<>>
    /\ Len(plate_results) = 2
    /\ \E i \in DOMAIN calls :
          /\ calls[i] = Call("reader", "fallback", 1, MkImage(1, 1), "some")
    /\ plates_found = <<[plate |-> <<"A", "1">>, confidence |-> 20000]>>
    /\ origin = <<[stage |-> "fallback", idx |-> 2]>>

-----------------------------------------------------------------------------
(* C23: the order of the capability calls *)

IsCall(c, cap, stage) == c.cap = cap /\ c.stage = stage

\* Vehicle v has been handled by call c: its plate search found nothing, or
\* its plate has been read.
Handles(c, v) ==
    /\ c.v = v
    /\ \/ IsCall(c, "plate_model", "two_stage") /\ c.ret = "none"
       \/ IsCall(c, "reader", "two_stage") /\ c.ret # "raised"

\* What may precede the call at position i > 1 of the history.
FollowsInOrder(i) ==
    LET c == calls[i]
        b == calls[i - 1]
    IN  /\ c.cap # "vehicle_model"
        /\ b.ret # "raised"
        /\ IsCall(c, "plate_model", "two_stage") =>
              /\ c.v \in 1..Len(df_vehicles)
              /\ IF c.v = 1 THEN b.cap = "vehicle_model"
                            ELSE Handles(b, c.v - 1)
        /\ IsCall(c, "reader", "two_stage") =>
              /\ IsCall(b, "plate_model", "two_stage")
              /\ b.v = c.v /\ b.ret = "some"
        /\ (IsCall(b, "plate_model", "two_stage") /\ b.ret = "some") =>
              IsCall(c, "reader", "two_stage")
        /\ IsCall(c, "plate_model", "fallback") =>
              IF df_vehicles = <<>> THEN b.cap = "vehicle_model"
                                    ELSE Handles(b, Len(df_vehicles))
        /\ IsCall(c, "reader", "fallback") =>
              /\ c.v \in 1..Len(plate_results)
              /\ IF c.v = 1 THEN IsCall(b, "plate_model", "fallback")
                            ELSE IsCall(b, "reader", "fallback")
                                 /\ b.v = c.v - 1 /\ b.ret # "raised"

\* The history of calls is in the order of the run.
CallsInOrder ==
    /\ pc # "start" <=> calls # <<>>
    /\ calls # <<>> => IsCall(calls[1], "vehicle_model", "start")
    /\ \A i \in 2..Len(calls) : FollowsInOrder(i)

\* C23: within one run the capability calls are sequential and ordered: the
\* vehicle detector is called once and first; the vehicles are handled one
\* at a time in the returned order, each with one plate-detector call
\* followed, only when a plate was found, by one reader call; the full-image
\* plate-detector call comes only after the last vehicle; each step makes at
\* most one call, and none is made once run has returned.
C23_CallsSequentialOrdered ==
    /\ []CallsInOrder
    /\ [][/\ pc # "done"
          /\ Len(calls') = Len(calls) + 1
          /\ SubSeq(calls', 1, Len(calls)) = calls]_calls

\* C23 witness: two vehicles, the first without plate, the second with a
\* plate that is read: the list is not empty, so run returns after four
\* calls, without any fallback call.
C23_Witness ==
    /\ pc = "done"
    /\ Len(df_vehicles) = 2
    /\ Len(calls) = 4
    /\ IsCall(calls[1], "vehicle_model", "start")
    /\ IsCall(calls[2], "plate_model", "two_stage") /\ calls[2].v = 1
    /\ calls[2].ret = "none"
    /\ IsCall(calls[3], "plate_model", "two_stage") /\ calls[3].v = 2
    /\ calls[3].ret = "some"
    /\ IsCall(calls[4], "reader", "two_stage") /\ calls[4].v = 2

-----------------------------------------------------------------------------
(* C24: the load state of the predictor *)

\* The load state agrees with the most recent load_model call, and the last
\* call answered accordingly.
LoadStateFollowsLastLoad ==
    /\ is_loaded <=> last_load = "succeeded"
    /\ pred_call.op = "load_model" =>
          /\ pred_call.ret <=> last_load = "succeeded"
          /\ ~pred_call.ret => pipeline = None
    /\ pred_call.op = "is_loaded" =>
          (pred_call.ret <=> last_load = "succeeded")
    /\ pred_call.op = "predict" =>
          /\ pred_call.loaded <=> last_load = "succeeded"
          /\ ~pred_call.loaded => pred_call.out.raises = "RuntimeError"
          /\ pred_call.loaded => pred_call.out.raises # "RuntimeError"

\* A failed load_model empties the pipeline whatever it held; is_loaded and
\* predict leave it alone.
LoadStateStep ==
    /\ (pred_call'.op = "load_model" /\ ~pred_call'.ret) => pipeline' = None
    /\ pred_call'.op \in {"is_loaded", "predict"} => pipeline' = pipeline

\* C24: after any sequence of load_model, is_loaded and predict calls,
\* is_loaded() is true exactly when the most recent load_model succeeded
\* (false before any load); a failed load_model leaves pipeline = None and
\* returns False even after an earlier success; predict does not change the
\* load state and raises RuntimeError whenever the model is not loaded.
C24_LoadStateIsLastLoad ==
    /\ []LoadStateFollowsLastLoad
    /\ [][LoadStateStep]_<<pipeline, pred_call>>

\* C24 witness: the most recent load failed and predict, called next, raised
\* RuntimeError without running the pipeline.
C24_Witness ==
    /\ last_load = "failed"
    /\ pipeline = None
    /\ pred_call.op = "predict"
    /\ pred_call.out.raises = "RuntimeError"
    /\ ~pred_call.out.ran

-----------------------------------------------------------------------------
(* C25: empty text and confidence *)

\* C25: for every sequence of reader fragments, fragments of empty text
\* included, extract_ocr returns confidence 0 whenever it returns empty
\* text.
C25_EmptyTextZeroConfidence ==
    (pc = "ocr_done" /\ ocr_out[1] = <<>>) => ocr_out[2] = 0

-----------------------------------------------------------------------------
(* C26: a recognized plate is reported *)

\* C26: whenever the list run returned holds a candidate with non-empty
\* text, predict returns a plate_text that is not None and POST /predict
\* returns and stores a non-empty results list.
C26_RecognizedPlateNotHidden ==
    (/\ http.endpoint = "predict"
     /\ http.status = 200
     /\ \E k \in DOMAIN http.run.list : http.run.list[k].plate # <<>>) =>
        /\ http.body.results # <<>>
        /\ \A i \in DOMAIN http.body.results :
              http.body.results[i].plate_text # NoneText
        /\ predictions[http.body.prediction_id].results # <<>>

-----------------------------------------------------------------------------
(* C27: row accounting of POST /predict *)

\* The request just answered passed authentication, the model-loaded check
\* and the decoding of its image.
Accepted(req) ==
    /\ req.endpoint = "predict"
    /\ TokenOfActiveUser(req.token)
    /\ is_loaded
    /\ imdecode(req.contents) # None

\* The row a /predict request stored: one row, appended, of the
\* authenticated user, with at most one result.
StoresOneRow(req) ==
    /\ Len(predictions') = Len(predictions) + 1
    /\ SubSeq(predictions', 1, Len(predictions)) = predictions
    /\ \E u \in NamedBy(req.token) : Last(predictions').user_id = u.id
    /\ Len(Last(predictions').results) <= 1

\* C27: each /predict request that passes authentication, the model-loaded
\* check and image decoding stores exactly one Prediction row, of the
\* authenticated user, with at most one result; every other request stores
\* none; no request modifies or deletes a row, so that GET /stats counts the
\* user's accepted predict requests.
C27_AcceptedRequestsAreStored ==
    [][/\ IF Accepted(http') THEN StoresOneRow(http')
                             ELSE predictions' = predictions
       /\ (http'.endpoint = "stats" /\ http'.status = 200) =>
             \E u \in NamedBy(http'.token) :
                http'.body.total_predictions =
                    Cardinality({i \in DOMAIN predictions :
                                    predictions[i].user_id = u.id})
      ]_<<http, predictions>>

-----------------------------------------------------------------------------
(* C28: the list is homogeneous, bounded and append-only *)

\* The stages the candidates of the list come from.
Stages == {origin[k].stage : k \in DOMAIN origin}

\* The list holds candidates of one stage only, no more than one per
\* detection of that stage.
HomogeneousBounded ==
    /\ Len(origin) = Len(plates_found)
    /\ Cardinality(Stages) <= 1
    /\ \A k1, k2 \in DOMAIN origin : origin[k1] = origin[k2] => k1 = k2
    /\ Stages = {"two_stage"} =>
          /\ \A k \in DOMAIN origin : origin[k].idx \in DOMAIN df_vehicles
          /\ Len(plates_found) <= Len(df_vehicles)
    /\ Stages = {"fallback"} =>
          /\ \A k \in DOMAIN origin : origin[k].idx \in DOMAIN plate_results
          /\ Len(plates_found) <= Len(plate_results)

\* A step leaves the candidates already in the list where and as they are.
AppendOnly ==
    /\ Len(plates_found') >= Len(plates_found)
    /\ SubSeq(plates_found', 1, Len(plates_found)) = plates_found

\* C28: the list run builds and returns is homogeneous and bounded: only
\* two-stage candidates, at most one per vehicle, or only fallback
\* candidates, at most one per full-image plate detection, never a mix; and
\* a candidate once appended is never modified or removed.
C28_HomogeneousBoundedAppendOnly ==
    /\ []HomogeneousBounded
    /\ [][AppendOnly]_plates_found

\* C28 witness: a returned list of two different two-stage candidates, one
\* per vehicle: the first was kept as it was when the second was appended.
C28_Witness ==
    /\ pc = "done"
    /\ Len(df_vehicles) = 2
    /\ Len(plates_found) = 2
    /\ Stages = {"two_stage"}
    /\ plates_found[1] # plates_found[2]

=============================================================================
